---- MODULE Spec2Model ----
(***************************************************************************)
(* The duel-trace session slot of api_server.py (active_trace_request,     *)
(* guarded by trace_lock) with its three HTTP handlers, request_trace,     *)
(* get_trace_target and trace_complete, run by concurrent handler threads, *)
(* and the /trace_duel command of bot.py that posts to request_trace.      *)
(* The /trigger command of bot.py posts to /set_trigger; the signal flag   *)
(* behind that endpoint (is_trigger_pending, raised by set_trigger and     *)
(* lowered by clear_trigger) is not part of api_server.py and is written   *)
(* from the specification of the flag.                                     *)
(*                                                                         *)
(* Python values: None is <<>>, an int n is <<"int", n>>, a str is         *)
(* <<"str", s>> with s the sequence of its characters, a dict is a         *)
(* function from keys to values, a JSON array is <<"list">>.               *)
(***************************************************************************)
EXTENDS Integers, Sequences, FiniteSets, TLC

\* Handler threads that may run at once, and requests received in a run.
NThreads == 2
MaxCalls == 3

Threads == 1..NThreads

None == <<>>
IntV(n) == <<"int", n>>
StrV(s) == <<"str", s>>
JsonList == <<"list">>

\* bool(v) of Python: None, 0 and "" are false.
Truthy(v) == /\ v # None
             /\ v # IntV(0)
             /\ v # StrV(<<>>)

Digits == <<"0", "1", "2", "3", "4", "5", "6", "7", "8", "9">>
IsDigit(c) == \E i \in 1..10 : Digits[i] = c
DigitValue(c) == (CHOOSE i \in 1..10 : Digits[i] = c) - 1

RECURSIVE DigitsValue(_)
DigitsValue(s) ==
    IF s = <<>> THEN 0
    ELSE 10 * DigitsValue(SubSeq(s, 1, Len(s) - 1)) + DigitValue(s[Len(s)])

\* int(s) on a str: an optional sign and one or more digits, else ValueError
\* (reported as None).  Inputs carry no blanks or underscores.
int(s) ==
    LET signed == s # <<>> /\ s[1] \in {"-", "+"}
        body == IF signed THEN Tail(s) ELSE s
    IN IF body = <<>> \/ \E i \in 1..Len(body) : ~IsDigit(body[i]) THEN None
       ELSE IntV(IF signed /\ s[1] = "-" THEN 0 - DigitsValue(body) ELSE DigitsValue(body))

RECURSIVE str(_)
\* str(n) of a non-negative int.
str(n) == IF n < 10 THEN <<Digits[n + 1]>>
          ELSE str(n \div 10) \o <<Digits[(n % 10) + 1]>>

\* os.getenv('DISCORD_BOT_API_KEY', ...): the key the server expects and the bot sends.
DISCORD_BOT_API_KEY == StrV(<<"K">>)

\* The result of an expression: a value, or an exception that nothing in
\* the handlers catches, so that it leaves the handler and Flask answers 500.
Raise(exc) == [raised |-> TRUE, exc |-> exc, value |-> None]
Value(v) == [raised |-> FALSE, exc |-> "", value |-> v]

\* get_json() gave a JSON object; anything else has no .get (AttributeError).
IsDict(data) == data # JsonList

\* data.get(key) and data.get(key, type=...) on the dict that get_json()
\* returns.  data is a plain Python dict (request.get_json() is json.loads of
\* the body), and dict.get takes no keyword arguments: the call with type=
\* raises TypeError whatever the dict holds ("dict.get() takes no keyword
\* arguments").  type= is the signature of werkzeug's MultiDict.get, which
\* request.args offers (ArgsGet) and a JSON body does not.
DictGet(data, key, type_kw) ==
    IF type_kw THEN Raise("TypeError")
    ELSE Value(IF key \in DOMAIN data THEN data[key] ELSE None)

\* request.args.get(key, type=...): werkzeug's MultiDict.get converts the
\* value and gives None when the key is missing or the conversion fails.
ArgsGet(args, key, type) ==
    IF key \notin DOMAIN args THEN None
    ELSE IF type = "int" THEN int(args[key])
    ELSE StrV(args[key])

verify_api_key(provided_key, expected_key) == provided_key = expected_key

Response(code, message) == [code |-> code, message |-> message, target |-> None]
InternalServerError(exc) == Response(500, exc)

\* active_trace_request: the slot, None or the dict of the session.
\* trace_lock: 0 when free, else the thread holding it.
\* pc, req: where each handler thread stands and the request it handles.
\* history: the calls that have returned, in the order their handlers ran.
\* started: the number of requests received.
VARIABLES active_trace_request, trace_lock, pc, req, history, started,
          is_trigger_pending

vars == <<active_trace_request, trace_lock, pc, req, history, started,
          is_trigger_pending>>

NoRequest == [op |-> "", is_json |-> FALSE, data |-> JsonList, args |-> <<>>]

Init ==
    /\ active_trace_request = None
    /\ trace_lock = 0
    /\ pc = [t \in Threads |-> "idle"]
    /\ req = [t \in Threads |-> NoRequest]
    /\ history = <<>>
    /\ started = 0
    /\ is_trigger_pending = FALSE

\* A dict literal with the keys whose value is given (None: the key is absent).
Field(key, v) == IF v = None THEN <<>> ELSE (key :> v)

\* --- inputs ---------------------------------------------------------------
WrongKey == StrV(<<"X">>)

TraceDict(key, p1, p2, r) ==
    Field("api_key", key) @@ Field("player1Id", p1) @@ Field("player2Id", p2)
        @@ Field("requester_discord_id", r)

\* Arguments of the /trace_duel command and the Discord user issuing it.
DuelIds == {1, 2}
DuelUsers == {9}

\* The payload trace_duel posts.
BotPayload(player1_id, player2_id, user) ==
    TraceDict(DISCORD_BOT_API_KEY, IntV(player1_id), IntV(player2_id), StrV(str(user)))

\* Bodies posted to /request_trace: not JSON, a JSON array, a wrong key, a
\* missing id, the id 0, equal ids, distinct ids without a requester, and the
\* bot's payloads.
RequestTraceBodies ==
    {[is_json |-> FALSE, data |-> JsonList], [is_json |-> TRUE, data |-> JsonList]}
    \cup {[is_json |-> TRUE, data |-> TraceDict(WrongKey, IntV(1), IntV(2), None)]}
    \cup {[is_json |-> TRUE, data |-> TraceDict(DISCORD_BOT_API_KEY, p1, IntV(2), None)] :
            p1 \in {None, IntV(0), IntV(1), IntV(2)}}
    \cup {[is_json |-> TRUE, data |-> BotPayload(d[1], d[2], u)] :
            d \in {e \in DuelIds \X DuelIds : e[1] # e[2]}, u \in DuelUsers}

\* Query strings sent to /get_trace_target.
ClientIds == {<<"7">>, <<"0">>, <<"-", "3">>, <<"x">>}
GetTraceTargetArgs ==
    {<<>>, ("client_id" :> <<"7">>) @@ ("client_name" :> <<>>)}
    \cup {("client_id" :> i) @@ ("client_name" :> <<"w">>) : i \in ClientIds}

\* Bodies posted to /trace_complete.
TraceCompleteBodies ==
    {[is_json |-> FALSE, data |-> JsonList], [is_json |-> TRUE, data |-> JsonList],
     [is_json |-> TRUE, data |-> ("clientId" :> IntV(7)) @@ ("status" :> StrV(<<"c">>))]}

\* --- handlers -------------------------------------------------------------
\* What a handler does to the slot and what it answers; locked: it went
\* through `with trace_lock:`.
Outcome(slot, resp, locked) == [slot |-> slot, resp |-> resp, locked |-> locked]

\* request_trace, the body of `with trace_lock:`.
request_trace_locked(slot, player1_id, player2_id, requester_discord_id) ==
    IF Truthy(slot)
    THEN Outcome(slot, Response(409, "Another duel trace is already active."), TRUE)
    ELSE Outcome([player1Id |-> player1_id,
                  player2Id |-> player2_id,
                  requester_discord_id |-> requester_discord_id,
                  status |-> "pending_roblox_client_pickup"],
                 Response(200, "Trace request received and set."), TRUE)

\* request_trace: r is the request, slot is active_trace_request.  The three
\* reads of lines 173-175 pass type=, so the first raises and what follows
\* them (the checks of the ids and the locked body) is never reached.
request_trace_handler(r, slot) ==
    IF ~r.is_json THEN Outcome(slot, Response(400, "Request must be JSON"), FALSE)
    ELSE IF ~IsDict(r.data) THEN Outcome(slot, InternalServerError("AttributeError"), FALSE)
    ELSE IF ~verify_api_key(DictGet(r.data, "api_key", FALSE).value, DISCORD_BOT_API_KEY)
    THEN Outcome(slot, Response(401, "Invalid API Key"), FALSE)
    ELSE LET player1_id == DictGet(r.data, "player1Id", TRUE)
             player2_id == DictGet(r.data, "player2Id", TRUE)
             requester_discord_id == DictGet(r.data, "requester_discord_id", TRUE)
         IN IF player1_id.raised THEN Outcome(slot, InternalServerError(player1_id.exc), FALSE)
            ELSE IF player2_id.raised
            THEN Outcome(slot, InternalServerError(player2_id.exc), FALSE)
            ELSE IF requester_discord_id.raised
            THEN Outcome(slot, InternalServerError(requester_discord_id.exc), FALSE)
            ELSE IF ~Truthy(player1_id.value) \/ ~Truthy(player2_id.value)
            THEN Outcome(slot, Response(400, "player1Id and player2Id are required"), FALSE)
            ELSE IF player1_id.value = player2_id.value
            THEN Outcome(slot, Response(400, "Player1Id and Player2Id must be different"), FALSE)
            ELSE request_trace_locked(slot, player1_id.value, player2_id.value,
                                      requester_discord_id.value)

\* trace_complete, the body of `with trace_lock:`.
trace_complete_locked(slot) ==
    IF Truthy(slot)
    THEN Outcome(None, Response(200, "Trace status received and cleared."), TRUE)
    ELSE Outcome(slot, Response(404, "No active trace to complete."), TRUE)

\* trace_complete: r is the request, slot is active_trace_request.  The
\* reads of lines 239-242 pass type=, so the first raises and the locked body
\* is never reached.
trace_complete_handler(r, slot) ==
    IF ~r.is_json THEN Outcome(slot, Response(400, "Request must be JSON"), FALSE)
    ELSE IF ~IsDict(r.data) THEN Outcome(slot, InternalServerError("AttributeError"), FALSE)
    ELSE LET client_id == DictGet(r.data, "clientId", TRUE)
             status == DictGet(r.data, "status", TRUE)
             duel_id == DictGet(r.data, "duelId", TRUE)
             reason == DictGet(r.data, "reason", TRUE)
         IN IF client_id.raised THEN Outcome(slot, InternalServerError(client_id.exc), FALSE)
            ELSE IF status.raised THEN Outcome(slot, InternalServerError(status.exc), FALSE)
            ELSE IF duel_id.raised THEN Outcome(slot, InternalServerError(duel_id.exc), FALSE)
            ELSE IF reason.raised THEN Outcome(slot, InternalServerError(reason.exc), FALSE)
            ELSE IF ~Truthy(client_id.value) \/ ~Truthy(status.value)
            THEN Outcome(slot, Response(400, "clientId and status are required"), FALSE)
            ELSE trace_complete_locked(slot)

\* get_trace_target_args with `and` for `or` in the check of the arguments.
get_trace_target_args_and(r) ==
    LET client_id == ArgsGet(r.args, "client_id", "int")
        client_name == ArgsGet(r.args, "client_name", "str")
    IN IF ~Truthy(client_id) /\ ~Truthy(client_name)
       THEN Response(400, "client_id and client_name are required")
       ELSE None

\* get_trace_target before the lock: the answer for bad arguments, or None.
get_trace_target_args(r) ==
    LET client_id == ArgsGet(r.args, "client_id", "int")
        client_name == ArgsGet(r.args, "client_name", "str")
    IN IF ~Truthy(client_id) \/ ~Truthy(client_name)
       THEN Response(400, "client_id and client_name are required")
       ELSE None

\* The locked body with its test inverted: subscripting None raises TypeError.
get_trace_target_locked_not(slot) ==
    IF ~Truthy(slot)
    THEN Outcome(slot, InternalServerError("TypeError"), TRUE)
    ELSE Outcome(slot, Response(200, "idle"), TRUE)

\* get_trace_target, the body of `with trace_lock:`.
get_trace_target_locked(slot) ==
    IF Truthy(slot)
    THEN Outcome(slot,
                 [code |-> 200, message |-> "tracing",
                  target |-> <<slot.player1Id, slot.player2Id, slot.requester_discord_id>>],
                 TRUE)
    ELSE Outcome(slot, Response(200, "idle"), TRUE)

\* --- actions --------------------------------------------------------------
\* Flask's routing hands a request for `op` to the idle handler thread t.
Receive(t, op) ==
    /\ pc[t] = "idle"
    /\ started < MaxCalls
    /\ started' = started + 1
    /\ req' = [req EXCEPT ![t] = [NoRequest EXCEPT !.op = op]]
    /\ pc' = [pc EXCEPT ![t] = op]
    /\ UNCHANGED <<active_trace_request, trace_lock, history, is_trigger_pending>>

\* The other threads that are handling a request for `op`.
Racing(t, op) == Cardinality({u \in Threads \ {t} : req[u].op = op})

\* One completed call: the request as the handler read it, its response, the
\* slot before and after the handler ran, how many other handlers of the
\* same endpoint were in flight when it returned, and the flag before and
\* after the handler ran.
Call(r, resp, before, after, racing, flag) ==
    [op |-> r.op, is_json |-> r.is_json, data |-> r.data, args |-> r.args,
     resp |-> resp, before |-> before, after |-> after, racing |-> racing,
     flag |-> <<is_trigger_pending, flag>>]

\* The handler of thread t, having read the request r, returns out.resp and
\* leaves the flag at `flag`.
ReturnWith(t, r, out, flag) ==
    /\ history' = Append(history, Call(r, out.resp, active_trace_request, out.slot,
                                        Racing(t, r.op), flag))
    /\ active_trace_request' = out.slot
    /\ is_trigger_pending' = flag
    /\ pc' = [pc EXCEPT ![t] = "idle"]
    /\ req' = [req EXCEPT ![t] = NoRequest]
    /\ UNCHANGED started

\* The handlers of api_server.py name no flag.
Return(t, r, out) == ReturnWith(t, r, out, is_trigger_pending)

route_request_trace(t) == Receive(t, "request_trace")

route_get_trace_target(t) == Receive(t, "get_trace_target")

route_trace_complete(t) == Receive(t, "trace_complete")

\* bot.py /trace_duel: equal ids are refused by the bot with a follow-up
\* message and nothing is posted; otherwise the payload, one of
\* RequestTraceBodies, is posted to /request_trace.
trace_duel(t) ==
    \E player1_id \in DuelIds, player2_id \in DuelIds, user \in DuelUsers :
        IF player1_id = player2_id
        THEN /\ pc[t] = "idle"
             /\ started < MaxCalls
             /\ started' = started + 1
             /\ history' = Append(history,
                    Call([NoRequest EXCEPT !.op = "trace_duel", !.is_json = TRUE,
                              !.data = BotPayload(player1_id, player2_id, user)],
                         Response(0, "Please provide two different Roblox User IDs for the duel."),
                         active_trace_request, active_trace_request, 0,
                         is_trigger_pending))
             /\ UNCHANGED <<active_trace_request, trace_lock, pc, req,
                            is_trigger_pending>>
        ELSE /\ [is_json |-> TRUE, data |-> BotPayload(player1_id, player2_id, user)]
                    \in RequestTraceBodies
             /\ Receive(t, "request_trace")

request_trace(t) ==
    /\ pc[t] = "request_trace"
    /\ \E b \in RequestTraceBodies :
        LET r == [req[t] EXCEPT !.is_json = b.is_json, !.data = b.data]
            out == request_trace_handler(r, active_trace_request)
        IN /\ out.locked => trace_lock = 0
           /\ Return(t, r, out)
    /\ UNCHANGED trace_lock

\* trace_complete that also lowers the flag.
trace_complete_lowers(t) ==
    /\ pc[t] = "trace_complete"
    /\ \E b \in TraceCompleteBodies :
        LET r == [req[t] EXCEPT !.is_json = b.is_json, !.data = b.data]
            out == trace_complete_handler(r, active_trace_request)
        IN /\ out.locked => trace_lock = 0
           /\ ReturnWith(t, r, out, FALSE)
    /\ UNCHANGED trace_lock

trace_complete(t) ==
    /\ pc[t] = "trace_complete"
    /\ \E b \in TraceCompleteBodies :
        LET r == [req[t] EXCEPT !.is_json = b.is_json, !.data = b.data]
            out == trace_complete_handler(r, active_trace_request)
        IN /\ out.locked => trace_lock = 0
           /\ Return(t, r, out)
    /\ UNCHANGED trace_lock

\* get_trace_target up to `with trace_lock:`.
get_trace_target(t) ==
    /\ pc[t] = "get_trace_target"
    /\ \E a \in GetTraceTargetArgs :
        LET r == [req[t] EXCEPT !.args = a]
            resp == get_trace_target_args(r)
        IN IF resp # None
           THEN Return(t, r, Outcome(active_trace_request, resp, FALSE))
           ELSE /\ pc' = [pc EXCEPT ![t] = "with_trace_lock"]
                /\ req' = [req EXCEPT ![t] = r]
                /\ UNCHANGED <<active_trace_request, history, started,
                               is_trigger_pending>>
    /\ UNCHANGED trace_lock

\* `with trace_lock:` of get_trace_target: the thread waits until the lock is free.
acquire_trace_lock(t) ==
    /\ pc[t] = "with_trace_lock"
    /\ trace_lock = 0
    /\ trace_lock' = t
    /\ pc' = [pc EXCEPT ![t] = "locked"]
    /\ UNCHANGED <<active_trace_request, req, history, started, is_trigger_pending>>

\* The locked body of get_trace_target returning with the lock still held.
get_trace_target_return_held(t) ==
    /\ pc[t] = "locked"
    /\ trace_lock = t
    /\ Return(t, req[t], get_trace_target_locked(active_trace_request))
    /\ trace_lock' = trace_lock

\* The locked body of get_trace_target; returning leaves the with block.
get_trace_target_return(t) ==
    /\ pc[t] = "locked"
    /\ trace_lock = t
    /\ Return(t, req[t], get_trace_target_locked(active_trace_request))
    /\ trace_lock' = 0

Next ==
    \E t \in Threads :
        \/ route_request_trace(t)
        \/ route_get_trace_target(t)
        \/ route_trace_complete(t)
        \/ trace_duel(t)
        \/ request_trace(t)
        \/ trace_complete(t)
        \/ get_trace_target(t)
        \/ acquire_trace_lock(t)
        \/ get_trace_target_return(t)

Spec == Init /\ [][Next]_vars

\* The steps of the handler thread t once it has a request.
Handle(t) ==
    \/ request_trace(t)
    \/ trace_complete(t)
    \/ get_trace_target(t)
    \/ acquire_trace_lock(t)
    \/ get_trace_target_return(t)

\* The requests of the runs in which the lock is examined: a body that is not
\* JSON, a JSON array, an Admit with the bot's key and distinct ids, a Resolve
\* that names its client and status, a poll without arguments and a poll
\* that names its client.
LockRequest(r) ==
    /\ r.data \in {JsonList,
                   TraceDict(DISCORD_BOT_API_KEY, IntV(1), IntV(2), None),
                   ("clientId" :> IntV(7)) @@ ("status" :> StrV(<<"c">>))}
    /\ r.args \in {<<>>, ("client_id" :> <<"7">>) @@ ("client_name" :> <<"w">>)}

LockRequests ==
    /\ \A j \in 1..Len(history) : LockRequest(history[j])
    /\ \A t \in Threads : LockRequest(req[t])

\* The three handlers on the requests of LockRequests.
NextLock ==
    \E t \in Threads :
        \/ route_request_trace(t) /\ LockRequests'
        \/ route_get_trace_target(t) /\ LockRequests'
        \/ route_trace_complete(t) /\ LockRequests'
        \/ request_trace(t) /\ LockRequests'
        \/ trace_complete(t) /\ LockRequests'
        \/ get_trace_target(t) /\ LockRequests'
        \/ acquire_trace_lock(t) /\ LockRequests'
        \/ get_trace_target_return(t) /\ LockRequests'

\* Every handler thread is an operating-system thread that keeps running: a
\* handler that can take a step does not stay put for ever.
FairSpec == Init /\ [][NextLock]_vars /\ \A t \in Threads : WF_vars(Handle(t))

\* --- the signal flag --------------------------------------------------------
\* bot.py /trigger: the bot posts {"api_key": DISCORD_BOT_API_KEY} to
\* /set_trigger.
TriggerPayload == TraceDict(DISCORD_BOT_API_KEY, None, None, None)

trigger_test(t) == Receive(t, "set_trigger")

\* Raise that flips the flag instead of setting it.
set_trigger_toggle(flag) == [flag |-> ~flag, resp |-> Response(200, "success")]

\* Raise: no precondition; the flag is true afterwards and the answer is
\* success, whatever the flag was.
set_trigger_locked(flag) == [flag |-> TRUE, resp |-> Response(200, "success")]

\* Lower that answers success whatever the flag was.
clear_trigger_always(flag) == [flag |-> FALSE, resp |-> Response(200, "success")]

\* Lower: a raised flag is set false and the answer is success; an unset flag
\* stays unset and the answer is "not found".
clear_trigger_locked(flag) ==
    IF flag
    THEN [flag |-> FALSE, resp |-> Response(200, "success")]
    ELSE [flag |-> flag, resp |-> Response(404, "not found")]

\* The flag as a poller is to observe it.
triggerPending == is_trigger_pending

\* The critical section of Raise, one step under the flag's own guard.
set_trigger(t) ==
    /\ pc[t] = "set_trigger"
    /\ LET r == [req[t] EXCEPT !.is_json = TRUE, !.data = TriggerPayload]
           out == set_trigger_locked(is_trigger_pending)
       IN ReturnWith(t, r, Outcome(active_trace_request, out.resp, FALSE), out.flag)
    /\ UNCHANGED trace_lock

route_clear_trigger(t) == Receive(t, "clear_trigger")

\* The critical section of Lower, one step under the flag's own guard.
clear_trigger(t) ==
    /\ pc[t] = "clear_trigger"
    /\ LET out == clear_trigger_locked(is_trigger_pending)
       IN ReturnWith(t, req[t], Outcome(active_trace_request, out.resp, FALSE), out.flag)
    /\ UNCHANGED trace_lock

\* The flag's operations next to the three handlers of the slot.
NextFlag ==
    \E t \in Threads :
        \/ trigger_test(t)
        \/ set_trigger(t)
        \/ route_clear_trigger(t)
        \/ clear_trigger(t)
        \/ route_request_trace(t)
        \/ request_trace(t)
        \/ route_trace_complete(t)
        \/ trace_complete(t)
        \/ route_get_trace_target(t)
        \/ get_trace_target(t)
        \/ acquire_trace_lock(t)
        \/ get_trace_target_return(t)

SpecFlag == Init /\ [][NextFlag]_vars

\* --- the calls of a run, as the claims speak of them ------------------------
Calls == 1..Len(history)

\* dict.get(key) of a posted JSON object.
Arg(c, key) == IF key \in DOMAIN c.data THEN c.data[key] ELSE None

\* A present, well-formed numeric identifier.
IsId(v) == v # None /\ v[1] = "int"

\* A call that reached the handler with a JSON object carrying the bot's key.
Keyed(c) == c.is_json /\ IsDict(c.data) /\ Arg(c, "api_key") = DISCORD_BOT_API_KEY

\* Admit(a, b, r) with valid distinct ids (an id of 0 counts as missing).
ValidAdmit(c) ==
    /\ c.op = "request_trace"
    /\ Keyed(c)
    /\ IsId(Arg(c, "player1Id")) /\ Truthy(Arg(c, "player1Id"))
    /\ IsId(Arg(c, "player2Id")) /\ Truthy(Arg(c, "player2Id"))
    /\ Arg(c, "player1Id") # Arg(c, "player2Id")

\* Admit(a, a).
EqualIdsAdmit(c) ==
    /\ c.op = "request_trace"
    /\ Keyed(c)
    /\ IsId(Arg(c, "player1Id"))
    /\ Arg(c, "player1Id") = Arg(c, "player2Id")

\* The session Admit(a, b, r) is to store.
SessionOf(c) ==
    [player1Id |-> Arg(c, "player1Id"),
     player2Id |-> Arg(c, "player2Id"),
     requester_discord_id |-> Arg(c, "requester_discord_id"),
     status |-> "pending_roblox_client_pickup"]

\* Resolve(outcome) reported by a client that names itself and the outcome.
ValidResolve(c) ==
    /\ c.op = "trace_complete"
    /\ c.is_json /\ IsDict(c.data)
    /\ IsId(Arg(c, "clientId")) /\ Arg(c, "clientId") # IntV(0)
    /\ Arg(c, "status") \notin {None, StrV(<<>>)}

\* Peek by a poller whose client_id is a non-zero integer and whose
\* client_name is not empty.
ValidPeek(c) ==
    /\ c.op = "get_trace_target"
    /\ "client_id" \in DOMAIN c.args
    /\ int(c.args["client_id"]) \notin {None, IntV(0)}
    /\ "client_name" \in DOMAIN c.args
    /\ c.args["client_name"] # <<>>

Ack(c) == c.resp.code = 200
InvalidArgument(c) == c.resp.code = 400
Conflict(c) == c.resp.code = 409
NotFound(c) == c.resp.code = 404

\* No call among history[i+1 .. j-1] satisfies P.
NoneBetween(i, j, P(_)) == \A k \in (i + 1)..(j - 1) : ~P(history[k])

\* By the calls completed before call j, the slot is occupied: a valid Admit
\* has returned and no valid Resolve has returned after it.
OccupiedBefore(j) ==
    \E i \in 1..(j - 1) : ValidAdmit(history[i]) /\ NoneBetween(i, j, ValidResolve)

\* C1: the slot holds zero or one session, and an Admit with valid distinct
\* ids issued while the slot is occupied returns Conflict and leaves the
\* occupant and all of its fields as they were.
C1_AdmitWhileOccupiedIsConflict ==
    /\ active_trace_request = None
       \/ DOMAIN active_trace_request
            = {"player1Id", "player2Id", "requester_discord_id", "status"}
    /\ \A j \in Calls :
        ValidAdmit(history[j]) /\ OccupiedBefore(j)
            => /\ Conflict(history[j])
               /\ history[j].before # None
               /\ history[j].after = history[j].before

\* C2: of the Admit calls with distinct valid ids that race on an empty slot,
\* the one that runs first returns success and stores its arguments, and
\* every other returns Conflict and leaves the winner's session in the slot.
C2_ConcurrentAdmitsOneWinner ==
    \A i \in Calls :
        ValidAdmit(history[i]) /\ history[i].racing >= 1 /\ history[i].before = None
            => /\ Ack(history[i])
               /\ history[i].after = SessionOf(history[i])
               /\ \A j \in Calls :
                    j > i /\ ValidAdmit(history[j]) /\ NoneBetween(i, j, ValidResolve)
                        => /\ Conflict(history[j])
                           /\ history[j].after = SessionOf(history[i])

\* C3: from a fresh slot the first Admit with valid distinct ids succeeds and
\* every later one is rejected with Conflict, as long as no Resolve has been
\* called, whatever Peek calls occur in between.
C3_FreshSlotAdmitsOnce ==
    \A j \in Calls :
        ValidAdmit(history[j]) /\ (\A k \in 1..(j - 1) : history[k].op # "trace_complete")
            => IF \A k \in 1..(j - 1) : ~ValidAdmit(history[k])
               THEN Ack(history[j])
               ELSE Conflict(history[j])

\* C4: Admit(a, a) fails with InvalidArgument for every a and in every slot
\* state and never changes the slot; the bot refuses /trace_duel a a itself.
C4_EqualIdsInvalidArgument ==
    \A j \in Calls :
        /\ EqualIdsAdmit(history[j])
            => InvalidArgument(history[j]) /\ history[j].after = history[j].before
        /\ history[j].op = "trace_duel"
            => history[j].resp.code = 0 /\ history[j].after = history[j].before

\* C5: Resolve on an empty slot returns NotFound and leaves the slot empty,
\* however often it is repeated.
C5_ResolveEmptyNotFound ==
    \A j \in Calls :
        ValidResolve(history[j]) /\ history[j].before = None
            => NotFound(history[j]) /\ history[j].after = None

\* C6: for each admitted session exactly one Resolve returns Ack: the first
\* Resolve after the admitting Admit returns Ack and empties the slot, and
\* every further Resolve before the next Admit returns NotFound.
C6_ExactlyOneResolveAcks ==
    \A i \in Calls, j \in Calls :
        /\ i < j
        /\ ValidAdmit(history[i]) /\ ~OccupiedBefore(i)
        /\ ValidResolve(history[j])
        /\ NoneBetween(i, j, ValidAdmit)
        => /\ history[j].after = None
           /\ IF NoneBetween(i, j, ValidResolve)
              THEN Ack(history[j])
              ELSE NotFound(history[j])

\* The answer of Peek on a slot holding session s.
Tracing(c, s) ==
    /\ c.resp.code = 200
    /\ c.resp.message = "tracing"
    /\ c.resp.target = <<s.player1Id, s.player2Id, s.requester_discord_id>>

Idle(c) == c.resp.code = 200 /\ c.resp.message = "idle" /\ c.resp.target = None

Changes(c) == ValidAdmit(c) \/ ValidResolve(c)

\* C7: a Peek that follows Admit(a, b) on an empty slot with no Resolve in
\* between reports active with subjectA = a and subjectB = b, and a Peek that
\* follows the Resolve of an occupied slot with no Admit in between reports
\* inactive with no subject fields.
C7_RoundTrip ==
    \A i \in Calls, j \in Calls :
        i < j /\ ValidPeek(history[j]) /\ NoneBetween(i, j, Changes)
        => /\ ValidAdmit(history[i]) /\ ~OccupiedBefore(i)
                => Tracing(history[j], SessionOf(history[i]))
           /\ ValidResolve(history[i]) /\ OccupiedBefore(i)
                => Idle(history[j])

\* C8: for every pair of present, well-formed numeric ids a # b, every
\* integer included, Admit on an empty slot returns Ack and stores
\* {a, b, requesterRef, PendingPickup}; InvalidArgument is returned only
\* when an id is missing, malformed, or a = b.
C8_ValidAdmitOnEmptyAcks ==
    \A j \in Calls :
        /\ ValidAdmit(history[j]) /\ history[j].before = None
            => Ack(history[j]) /\ history[j].after = SessionOf(history[j])
        /\ history[j].op = "request_trace" /\ Keyed(history[j])
                /\ InvalidArgument(history[j])
            => ~ValidAdmit(history[j])

\* C9: the slot is reusable and keeps no history: after the Resolve of an
\* admitted session the next valid Admit(c, d, r) returns Ack and stores
\* exactly c, d and r, and the following Peek shows exactly them.
C9_SlotReusable ==
    \A h \in Calls, i \in Calls, j \in Calls :
        /\ h < i /\ i < j
        /\ ValidAdmit(history[h]) /\ ~OccupiedBefore(h)
        /\ ValidResolve(history[i]) /\ NoneBetween(h, i, Changes)
        /\ ValidAdmit(history[j]) /\ NoneBetween(i, j, Changes)
        => /\ Ack(history[j])
           /\ history[j].after = SessionOf(history[j])
           /\ \A k \in Calls :
                k > j /\ ValidPeek(history[k]) /\ NoneBetween(j, k, Changes)
                    => Tracing(history[k], SessionOf(history[j]))

\* A step taken by a get_trace_target handler.
PeekStep ==
    \E t \in Threads : req[t].op = "get_trace_target" /\ pc'[t] # pc[t]

\* C10 as stated: Peek never changes the slot and has no precondition that
\* makes it fail: every Peek answers a snapshot.
C10_PeekNeverFails ==
    \A j \in Calls :
        history[j].op = "get_trace_target"
            => /\ history[j].after = history[j].before
               /\ history[j].resp.code = 200

\* C10 as amended: no step of Peek changes the slot, for any arguments and
\* also while Admit and Resolve handlers are in flight; Peek answers bad
\* request exactly when client_id is missing, not an integer or 0, or
\* client_name is missing or empty, and otherwise answers the snapshot of
\* the slot it read.
C10_PeekPureRead ==
    /\ [][PeekStep => active_trace_request' = active_trace_request]_vars
    /\ [](\A j \in Calls :
            history[j].op = "get_trace_target"
                => /\ history[j].after = history[j].before
                   /\ InvalidArgument(history[j]) <=> ~ValidPeek(history[j])
                   /\ ValidPeek(history[j])
                        => IF history[j].before = None
                           THEN Idle(history[j])
                           ELSE Tracing(history[j], history[j].before))

\* A Peek with good arguments and a Peek with bad ones have returned while
\* an Admit or a Resolve handler is in flight.
C10_Witness ==
    /\ \E j \in Calls : ValidPeek(history[j]) /\ Idle(history[j])
    /\ \E j \in Calls : history[j].op = "get_trace_target" /\ InvalidArgument(history[j])
    /\ \E t \in Threads : pc[t] \in {"request_trace", "trace_complete"}

\* C11: once a session has been admitted, the slot stays occupied by that
\* same session until a Resolve succeeds, and every Admit in that interval
\* is rejected: after a valid Admit on a free slot with no valid Resolve
\* since, the slot holds that Admit's session and no later Admit is
\* acknowledged.
C11_OccupiedUntilResolved ==
    \A i \in Calls :
        (/\ ValidAdmit(history[i])
         /\ ~OccupiedBefore(i)
         /\ \A k \in Calls : k > i => ~ValidResolve(history[k]))
            => /\ active_trace_request = SessionOf(history[i])
               /\ \A j \in Calls :
                    j > i /\ history[j].op = "request_trace"
                        => /\ ~Ack(history[j])
                           /\ history[j].after = SessionOf(history[i])

\* An Admit or Resolve call whose body is JSON.
JsonBodyCall(c) == c.op \in {"request_trace", "trace_complete"} /\ c.is_json

\* A typed result: Ack, InvalidArgument, Conflict, NotFound or unauthorized.
Typed(c) == c.resp.code \in {200, 400, 409, 404, 401}

\* C12: every Admit and Resolve call with a JSON body ends in a typed result
\* (Ack, InvalidArgument, Conflict, NotFound or unauthorized); none ends in
\* an unhandled exception.
C12_TypedResults ==
    \A j \in Calls : JsonBodyCall(history[j]) => Typed(history[j])

\* --- the calls on the flag ----------------------------------------------------
IsRaise(c) == c.op = "set_trigger"
IsLower(c) == c.op = "clear_trigger"
FlagOp(c) == IsRaise(c) \/ IsLower(c)
SlotOp(c) == c.op \in {"request_trace", "trace_complete", "get_trace_target"}

\* Call i is the last call on the flag before call j.
LastFlagOpBefore(i, j) ==
    /\ i < j
    /\ FlagOp(history[i])
    /\ \A k \in (i + 1)..(j - 1) : ~FlagOp(history[k])

\* C13: Raise always succeeds and is idempotent: from either flag state every
\* Raise returns Ack and leaves the flag true, and after one Raise or several
\* consecutive Raises, with no Lower since, the flag is observed true.
C13_RaiseIdempotent ==
    /\ \A j \in Calls :
        IsRaise(history[j]) => Ack(history[j]) /\ history[j].flag[2] = TRUE
    /\ (\E j \in Calls :
            IsRaise(history[j]) /\ \A k \in Calls : k > j => ~IsLower(history[k]))
        => triggerPending = TRUE

\* Two consecutive Raises, the first on an unset flag, the second on a raised one.
C13_Witness ==
    \E j \in Calls :
        /\ j + 1 \in Calls
        /\ IsRaise(history[j]) /\ history[j].flag = <<FALSE, TRUE>>
        /\ IsRaise(history[j + 1]) /\ history[j + 1].flag = <<TRUE, TRUE>>
        /\ triggerPending = TRUE

\* C14: Lower on a raised flag returns Ack and leaves the flag false; Lower on
\* an unset flag returns NotFound and leaves it false; so of the Lowers that
\* follow one Raise, the first returns Ack and every further one NotFound
\* until the flag is raised again.
C14_LowerOnce ==
    /\ \A j \in Calls :
        IsLower(history[j])
            => /\ history[j].flag[2] = FALSE
               /\ history[j].flag[1] => Ack(history[j])
               /\ ~history[j].flag[1] => NotFound(history[j])
    /\ \A i \in Calls, j \in Calls :
        IsLower(history[j]) /\ LastFlagOpBefore(i, j)
            => /\ IsRaise(history[i]) => Ack(history[j])
               /\ IsLower(history[i]) => NotFound(history[j])
    /\ (\E j \in Calls :
            IsLower(history[j]) /\ \A k \in Calls : k > j => ~IsRaise(history[k]))
        => triggerPending = FALSE

\* Raise, then a Lower that returns Ack, then a Lower that returns NotFound.
C14_Witness ==
    \E i \in Calls, j \in Calls, k \in Calls :
        /\ IsRaise(history[i])
        /\ LastFlagOpBefore(i, j) /\ IsLower(history[j]) /\ Ack(history[j])
        /\ LastFlagOpBefore(j, k) /\ IsLower(history[k]) /\ NotFound(history[k])
        /\ triggerPending = FALSE

\* C15: the combined poll response of get_trace_target always carries a
\* triggerPending boolean equal to the flag at the time of the poll.
C15_PollCarriesTriggerPending ==
    \A j \in Calls :
        ValidPeek(history[j]) /\ Ack(history[j])
            => /\ "triggerPending" \in DOMAIN history[j].resp
               /\ history[j].resp.triggerPending = history[j].flag[1]

C20_RequesterCarried ==
    /\ \A j \in Calls :
        (/\ ValidAdmit(history[j])
         /\ Arg(history[j], "requester_discord_id") = None
         /\ ~OccupiedBefore(j))
            => /\ Ack(history[j])
               /\ history[j].after = SessionOf(history[j])
    /\ \A i \in Calls, j \in Calls :
        (/\ i < j
         /\ ValidAdmit(history[i]) /\ ~OccupiedBefore(i)
         /\ ValidPeek(history[j]) /\ NoneBetween(i, j, Changes))
            => /\ history[j].resp.message = "tracing"
               /\ history[j].resp.target[3] = Arg(history[i], "requester_discord_id")

\* C21: trace_lock is held only by a handler inside its `with trace_lock:`
\* block and is released on every way out of it, so with concurrent handlers
\* a handler that waits for the lock gets it, a held lock becomes free, every
\* handler returns, and while a handler has work left some handler can step.
C21_LockReleased ==
    /\ [](\A t \in Threads :
            /\ trace_lock = t => pc[t] = "locked"
            /\ pc[t] = "locked" => trace_lock = t)
    /\ []((\E t \in Threads : pc[t] # "idle") => \E t \in Threads : ENABLED Handle(t))
    /\ \A t \in Threads : (pc[t] = "with_trace_lock") ~> (pc[t] = "locked")
    /\ (trace_lock # 0) ~> (trace_lock = 0)
    /\ \A t \in Threads : (pc[t] # "idle") ~> (pc[t] = "idle")

\* A handler waits for the lock that another handler holds.
C21_Witness ==
    \E t \in Threads, u \in Threads :
        /\ pc[t] = "with_trace_lock"
        /\ pc[u] = "locked"
        /\ trace_lock = u

\* An Admit whose JSON object carries no api_key or one that is not the bot's.
WrongKeyAdmit(c) ==
    /\ c.op = "request_trace"
    /\ c.is_json /\ IsDict(c.data)
    /\ Arg(c, "api_key") # DISCORD_BOT_API_KEY

\* C22: an Admit whose api_key differs from the bot's key is refused as
\* unauthorized, whatever its other arguments and whatever the slot holds,
\* and leaves the slot as it was; Resolve checks no key, so a Resolve from
\* any caller, with or without a Peek before it, vacates an occupied slot.
C22_KeyCheckOnAdmitOnly ==
    /\ \A j \in Calls :
        WrongKeyAdmit(history[j])
            => /\ history[j].resp.code = 401
               /\ history[j].after = history[j].before
    /\ \A j \in Calls :
        ValidResolve(history[j]) /\ OccupiedBefore(j)
            => /\ Ack(history[j])
               /\ history[j].after = None
====
